---- MODULE Spec2Model ----
(***************************************************************************)
(* rauth.hook.OAuth1Hook: the pre-request hook that signs a request with   *)
(* OAuth 1.0/a parameters and places them in the Authorization header, the *)
(* body or the query.                                                      *)
(*                                                                         *)
(* Values are strings.  A Python dict is a set of <<key, value>> pairs     *)
(* with unique keys; a list of pairs and a raw query string are sequences  *)
(* of <<key, value>> pairs (a raw string "a=1&b=" is <<a,1>>,<<b,"">>).     *)
(* The integer oauth_timestamp is held as its decimal string.              *)
(***************************************************************************)
EXTENDS Integers, Sequences, FiniteSets, TLC

VARIABLES
    hook,            \* instance id -> the OAuth1Hook instance's attributes
    class_verifier,  \* the class attribute OAuth1Hook.verifier
    args,            \* instance id -> the arguments __init__ was called with
    request,         \* request id -> the request object
    pc,              \* thread id -> position of the thread inside __call__
    frame,           \* thread id -> the locals of __call__ (params_and_data)
    last,            \* thread id -> record of the thread's most recent __call__
    seen,            \* instance id -> verifier carried by the most recent call
                     \*   on the instance that observed one (history)
    seen_callback    \* instance id -> oauth_callback merged by the most recent
                     \*   call on the instance that had one (history)

vars == <<hook, class_verifier, args, request, pc, frame, last, seen,
          seen_callback>>

-----------------------------------------------------------------------------
(* Bounds of the model *)

\* the readings of the clock and of the random source a call may draw: the
\* i-th reading is a timestamp and a nonce, for i in 1..MaxTick
MaxTick == 2

-----------------------------------------------------------------------------
(* Python values *)

None == "None"
Unset == "<unset>"

OAUTH_VERSION == "1.0"

form_urlencoded == "application/x-www-form-urlencoded"

\* dict: a set of <<key, value>> pairs
Keys(d) == {p[1] : p \in d}

Get(d, k) == (CHOOSE p \in d : p[1] = k)[2]

Put(d, k, v) == {p \in d : p[1] # k} \cup {<<k, v>>}

\* d.update(e) / dict(d, **e): the pairs of e replace those of d
Update(d, e) == {p \in d : p[1] \notin Keys(e)} \cup e

\* dict(list of pairs): a later pair replaces an earlier one with its key
RECURSIVE DictOfSeq(_)
DictOfSeq(s) ==
    IF s = <<>> THEN {}
    ELSE LET n == Len(s)
         IN  Put(DictOfSeq(SubSeq(s, 1, n - 1)), s[n][1], s[n][2])

\* the three shapes request.params and request.data come in
PDict(d) == [shape |-> "dict", seq |-> <<>>, map |-> d]
PList(s) == [shape |-> "list", seq |-> s, map |-> {}]
PStr(s)  == [shape |-> "str", seq |-> s, map |-> {}]

\* urlparse.parse_qsl(qs): the pairs of the query string, blank values dropped
parse_qsl(x) == SelectSeq(x.seq, LAMBDA p : p[2] # "")

\* an attribute the hook attaches to the request object
NoAttr == [set |-> FALSE, map |-> {}]
Attr(d) == [set |-> TRUE, map |-> d]

\* the Authorization header value; NoHeader when the header is not set
NoHeader == [scheme |-> None, realm |-> None, params |-> {}]

-----------------------------------------------------------------------------
(* rauth.oauth: Consumer, Token *)

Consumer(key, secret) == [key |-> key, secret |-> secret]

Token(key, secret) == [key |-> key, secret |-> secret]

NoToken == [key |-> None, secret |-> None]

HmacSha1Signature == "HMAC-SHA1"

-----------------------------------------------------------------------------
(* OAuth1Hook.__init__ *)

OAuth1Hook_init(consumer_key, consumer_secret, access_token, access_token_secret, header_auth, signature) ==
    [raised |-> None,
     self |-> [consumer |-> Consumer(consumer_key, consumer_secret),
               token |-> IF access_token # None /\ access_token_secret # None
                         THEN Token(access_token, access_token_secret)
                         ELSE NoToken,
               header_auth |-> header_auth,
               signature |-> IF signature # None THEN signature
                             ELSE HmacSha1Signature,
               verifier |-> Unset]]

\* self.verifier: the instance attribute if set, else the class attribute
Verifier(self, cls) == IF self.verifier = Unset THEN cls ELSE self.verifier

-----------------------------------------------------------------------------
(* time.time() and random.random() *)

TimeStr(t) == CASE t = 1 -> "1318622958"
                [] t = 2 -> "1318622959"
                [] OTHER -> "1318622960"

NonceHex(r) == CASE r = 1 -> "n1"
                 [] r = 2 -> "n2"
                 [] r = 3 -> "n3"
                 [] OTHER -> "n4"

-----------------------------------------------------------------------------
(* OAuth1Hook.oauth_params *)

\* a variant that emits oauth_token whether or not a token is held
oauth_params_AlwaysToken(self, cls, time, rand) ==
    LET base == {<<"oauth_consumer_key", self.consumer.key>>,
                 <<"oauth_timestamp", TimeStr(time)>>,
                 <<"oauth_nonce", NonceHex(rand)>>,
                 <<"oauth_version", OAUTH_VERSION>>,
                 <<"oauth_token", self.token.key>>}
        ver == IF Verifier(self, cls) # None
               THEN Put(base, "oauth_verifier", Verifier(self, cls)) ELSE base
    IN  Put(ver, "oauth_signature_method", self.signature)

oauth_params(self, cls, time, rand) ==
    LET base == {<<"oauth_consumer_key", self.consumer.key>>,
                 <<"oauth_timestamp", TimeStr(time)>>,
                 <<"oauth_nonce", NonceHex(rand)>>,
                 <<"oauth_version", OAUTH_VERSION>>}
        tok == IF self.token # NoToken
               THEN Put(base, "oauth_token", self.token.key) ELSE base
        ver == IF Verifier(self, cls) # None
               THEN Put(tok, "oauth_verifier", Verifier(self, cls)) ELSE tok
    IN  Put(ver, "oauth_signature_method", self.signature)

-----------------------------------------------------------------------------
(* urllib.quote and OAuth1Hook.auth_header *)

\* quote(str(v)): everything but letters, digits and "_.-/" is %-escaped
quote(v) == CASE v = "http://cb" -> "http%3A//cb"
              [] v = "s1=" -> "s1%3D"
              [] v = "s2=" -> "s2%3D"
              [] v = "s3=" -> "s3%3D"
              [] v = "s4=" -> "s4%3D"
              [] OTHER -> v

auth_header(params, realm) ==
    [scheme |-> "OAuth", realm |-> realm,
     params |-> {<<p[1], quote(p[2])>> : p \in params}]

\* urlunsplit((scheme, netloc, '/', '', '')) of urlsplit(url)
Realm(url) == CASE url = "http://example.com/resource?foo=bar"
                       -> "http://example.com/"
                [] OTHER -> "/"

-----------------------------------------------------------------------------
(* OAuth1Hook.__call__, in the order of its statements *)

\* the list -> dict workaround
ListToDict(x) == IF x.shape = "list" THEN PDict(DictOfSeq(x.seq)) ELSE x

Normalised(r) ==
    [r EXCEPT !.params = ListToDict(@), !.data = ListToDict(@)]

is_querystring(r) == r.params.shape = "str" /\ r.data.shape = "str"

\* "prepare a dictionary of both params and data": what the statement
\* raises (None when it does not) and the dictionary it builds
Merge(r) ==
    IF is_querystring(r)
    THEN [raised |-> None,
          params_and_data |-> DictOfSeq(parse_qsl(r.params) \o parse_qsl(r.data))]
    ELSE IF r.data.shape = "str"
    THEN \* dict(x, **'...'): the argument after ** must be a mapping
         [raised |-> "TypeError", params_and_data |-> {}]
    ELSE IF r.params.shape = "str" /\ r.params.seq # <<>>
    THEN \* dict('a=1'): dictionary update sequence element has length 1
         [raised |-> "ValueError", params_and_data |-> {}]
    ELSE \* dict('') is {}
         [raised |-> None, params_and_data |-> Update(r.params.map, r.data.map)]

\* a variant that stores params_and_data.get('oauth_verifier') on every call
SetVerifier_OrNone(self, params_and_data) ==
    IF "oauth_verifier" \in Keys(params_and_data)
    THEN [self EXCEPT !.verifier = Get(params_and_data, "oauth_verifier")]
    ELSE [self EXCEPT !.verifier = None]

\* a variant that keeps the first verifier it was given
SetVerifier_FirstOnly(self, params_and_data) ==
    IF "oauth_verifier" \in Keys(params_and_data) /\ self.verifier = Unset
    THEN [self EXCEPT !.verifier = Get(params_and_data, "oauth_verifier")]
    ELSE self

\* "set the verifier if we've been provided one": the new instance attribute
SetVerifier(self, params_and_data) ==
    IF "oauth_verifier" \in Keys(params_and_data)
    THEN [self EXCEPT !.verifier = Get(params_and_data, "oauth_verifier")]
    ELSE self

\* a variant that stores the verifier on the class: OAuth1Hook.verifier = ...
ClassVerifierAfter_Shared(cls, params_and_data) ==
    IF "oauth_verifier" \in Keys(params_and_data)
    THEN Get(params_and_data, "oauth_verifier")
    ELSE cls

\* the class attribute OAuth1Hook.verifier after line 108: the assignment is
\* to self, which leaves the class attribute as it is
ClassVerifierAfter(cls, params_and_data) == cls

\* a variant that leaves the generated parameters as they are
WithCallback_NotCopied(op, params_and_data) == op

\* "here we append an oauth_callback parameter if any"
WithCallback(op, params_and_data) ==
    IF "oauth_callback" \in Keys(params_and_data)
    THEN Put(op, "oauth_callback", Get(params_and_data, "oauth_callback"))
    ELSE op

\* request.oauth_params = ...; request.params_and_data = ....copy()
Attach(r, op) ==
    [r EXCEPT !.oauth_params = Attr(op), !.params_and_data = Attr(op)]

-----------------------------------------------------------------------------
(* rauth.oauth: the signature strategy's sign(request, consumer, token) *)

\* the parameters of the caller as a mapping
CallerMap(x) == IF x.shape = "dict" THEN x.map ELSE DictOfSeq(parse_qsl(x))

\* the signature: base64 of the HMAC, here a value told apart by the nonce
\* of the parameters it signs
SignatureOf(pd) ==
    LET n == IF "oauth_nonce" \in Keys(pd) THEN Get(pd, "oauth_nonce") ELSE None
    IN  CASE n = "n1" -> "s1="
          [] n = "n2" -> "s2="
          [] n = "n3" -> "s3="
          [] OTHER -> "s4="

\* sign merges the caller's query and body parameters into
\* request.params_and_data and adds oauth_signature to it
sign(r, consumer, token, fails) ==
    IF fails
    THEN [raised |-> "SigningError", request |-> r]
    ELSE LET merged == Update(Update(r.params_and_data.map, CallerMap(r.params)),
                              CallerMap(r.data))
         IN  [raised |-> None,
              request |-> [r EXCEPT !.params_and_data =
                              Attr(Put(merged, "oauth_signature",
                                       SignatureOf(merged)))]]

-----------------------------------------------------------------------------
(* OAuth1Hook.__call__: content-type default and placement *)

\* a variant that leaves an unset content-type unset
ContentType_NoDefault(r) == r.headers.content_type

ContentType(r) ==
    IF r.headers.content_type = None THEN form_urlencoded
    ELSE r.headers.content_type

\* a variant that writes the body and falls through to the query as well
Place_BodyAndQuery(self, r) ==
    LET r1 == [r EXCEPT !.headers.content_type = ContentType(r)]
        is_form_urlencoded == r1.headers.content_type = form_urlencoded
        pd == r1.params_and_data.map
        r2 == IF self.header_auth
              THEN [r1 EXCEPT !.headers.Authorization =
                                  auth_header(pd, Realm(r1.url))]
              ELSE IF r1.method = "POST" /\ is_form_urlencoded
              THEN [r1 EXCEPT !.data = PDict(pd), !.params = PDict(pd)]
              ELSE [r1 EXCEPT !.params = PDict(pd)]
    IN  [r2 EXCEPT !.params_and_data = NoAttr]

\* a variant that tests POST + form before header_auth
Place_BodyFirst(self, r) ==
    LET r1 == [r EXCEPT !.headers.content_type = ContentType(r)]
        is_form_urlencoded == r1.headers.content_type = form_urlencoded
        pd == r1.params_and_data.map
        r2 == IF r1.method = "POST" /\ is_form_urlencoded
              THEN [r1 EXCEPT !.data = PDict(pd)]
              ELSE IF self.header_auth
              THEN [r1 EXCEPT !.headers.Authorization =
                                  auth_header(pd, Realm(r1.url))]
              ELSE [r1 EXCEPT !.params = PDict(pd)]
    IN  [r2 EXCEPT !.params_and_data = NoAttr]

Place(self, r) ==
    LET r1 == [r EXCEPT !.headers.content_type = ContentType(r)]
        is_form_urlencoded == r1.headers.content_type = form_urlencoded
        pd == r1.params_and_data.map
        r2 == IF self.header_auth
              THEN [r1 EXCEPT !.headers.Authorization =
                                  auth_header(pd, Realm(r1.url))]
              ELSE IF r1.method = "POST" /\ is_form_urlencoded
              THEN [r1 EXCEPT !.data = PDict(pd)]
              ELSE [r1 EXCEPT !.params = PDict(pd)]
    IN  [r2 EXCEPT !.params_and_data = NoAttr]

-----------------------------------------------------------------------------
(* OAuth1Hook.__call__ in two parts: up to the write of self.verifier, and *)
(* from the read of self.oauth_params to the end                           *)

\* a call that merges the parameters but leaves self.verifier as it was
Observe_VerifierNotRecorded(self, r) ==
    LET Merged(r1, m) ==
            [raised |-> m.raised,
             request |-> r1,
             params_and_data |-> m.params_and_data,
             self |-> self]
    IN  Merged(Normalised(r), Merge(Normalised(r)))

\* lines 86-108: the request after the list workaround, the merged
\* dictionary, and the instance after the verifier is set
Observe(self, r) ==
    LET Merged(r1, m) ==
            [raised |-> m.raised,
             request |-> r1,
             params_and_data |-> m.params_and_data,
             self |-> IF m.raised = None
                      THEN SetVerifier(self, m.params_and_data) ELSE self]
    IN  Merged(Normalised(r), Merge(Normalised(r)))

\* a variant that writes the artifact, signature missing, and signs afterwards
Complete_WriteBeforeSign(self, cls, r, params_and_data, time, rand, fails) ==
    LET Result(gen, r2, s) ==
            [raised |-> s.raised,
             generated |-> gen,
             at_sign |-> r2,
             steps |-> <<"generate", "write", "sign">>,
             signed |-> IF s.raised = None THEN s.request.params_and_data.map
                        ELSE {},
             request |-> r2]
        Signed(gen, r2) ==
            Result(gen, r2, sign(r2, self.consumer, self.token, fails))
        Generated(gen) ==
            Signed(gen, Place(self, Attach(r, WithCallback(gen, params_and_data))))
    IN  Generated(oauth_params(self, cls, time, rand))

\* lines 110-145; steps lists, in order, the reads of self.oauth_params
\* ("generate"), the calls of sign and the write of the artifact
Complete(self, cls, r, params_and_data, time, rand, fails) ==
    LET Result(gen, r2, s) ==
            [raised |-> s.raised,
             generated |-> gen,
             at_sign |-> r2,
             steps |-> IF s.raised = None THEN <<"generate", "sign", "write">>
                       ELSE <<"generate", "sign">>,
             signed |-> IF s.raised = None THEN s.request.params_and_data.map
                        ELSE {},
             request |-> IF s.raised = None THEN Place(self, s.request)
                         ELSE r2]
        Signed(gen, r2) ==
            Result(gen, r2, sign(r2, self.consumer, self.token, fails))
        Generated(gen) ==
            Signed(gen, Attach(r, WithCallback(gen, params_and_data)))
    IN  Generated(oauth_params(self, cls, time, rand))

-----------------------------------------------------------------------------
(* The callers: what requests and hooks the model draws *)

Urls == {"http://example.com/resource?foo=bar"}

\* exactly one of access_token / access_token_secret is supplied
HalfToken(a) == (a.access_token = None) # (a.access_token_secret = None)

\* a half-supplied token pair is drawn with the other arguments at their
\* defaults
CtorArgs ==
    {a \in [consumer_key : {"ck"}, consumer_secret : {"cs"},
            access_token : {None, "tk"}, access_token_secret : {None, "ts"},
            header_auth : BOOLEAN, signature : {None, "PLAINTEXT"}] :
        HalfToken(a) => (~a.header_auth /\ a.signature = None)}

New(a) == OAuth1Hook_init(a.consumer_key, a.consumer_secret, a.access_token,
                          a.access_token_secret, a.header_auth, a.signature)

ParamInputs ==
    {PDict({}), PDict({<<"a", "1">>}),
     PDict({<<"oauth_verifier", "X">>}), PDict({<<"oauth_verifier", "Y">>}),
     PDict({<<"oauth_callback", "http://cb">>}),
     PList(<<<<"a", "1">>, <<"a", "2">>>>),
     PStr(<<>>), PStr(<<<<"a", "">>>>),
     PStr(<<<<"oauth_verifier", "X">>>>)}

FreshRequests ==
    [method : {"GET", "POST"}, url : Urls,
     headers : [content_type : {None, form_urlencoded, "application/json"},
                Authorization : {NoHeader}],
     params : ParamInputs, data : ParamInputs,
     oauth_params : {NoAttr}, params_and_data : {NoAttr}]

BlankRequest ==
    [method |-> "GET", url |-> "http://example.com/resource?foo=bar",
     headers |-> [content_type |-> None, Authorization |-> NoHeader],
     params |-> PDict({}), data |-> PDict({}),
     oauth_params |-> NoAttr, params_and_data |-> NoAttr]

\* the record of a call: status is "none" before any call, "running" between
\* the two parts, "ok" after a call that returned, else the exception raised
NoCall ==
    [status |-> "none", h |-> 0, input |-> BlankRequest,
     params_and_data |-> {}, generated |-> {}, at_sign |-> BlankRequest,
     steps |-> <<>>, signed |-> {}, seen_before |-> None]

NoFrame == [h |-> 0, params_and_data |-> {}]

\* the oauth_verifier of the caller's input, read off the input itself: the
\* last pair with that key, the body's before the query's; None when absent
RECURSIVE LastOf(_, _)
LastOf(s, k) ==
    IF s = <<>> THEN None
    ELSE IF s[Len(s)][1] = k THEN s[Len(s)][2]
    ELSE LastOf(SubSeq(s, 1, Len(s) - 1), k)

Lookup(x, k) ==
    CASE x.shape = "dict" -> IF k \in Keys(x.map) THEN Get(x.map, k) ELSE None
      [] x.shape = "list" -> LastOf(x.seq, k)
      [] OTHER -> LastOf(parse_qsl(x), k)

InputValue(r, k) ==
    IF Lookup(r.data, k) # None THEN Lookup(r.data, k) ELSE Lookup(r.params, k)

InputVerifier(r) == InputValue(r, "oauth_verifier")

-----------------------------------------------------------------------------
(* Actions *)

\* the caller builds a fresh request object
NewRequest(q) ==
    /\ pc[q] = "idle"
    /\ request[q] = BlankRequest
    /\ last[q] = NoCall
    /\ \E r \in FreshRequests : request' = [request EXCEPT ![q] = r]
    /\ UNCHANGED <<hook, class_verifier, args, pc, frame, last, seen,
                   seen_callback>>

\* the caller is done with the request object (it was sent, or given up)
Discard(q) ==
    /\ pc[q] = "idle"
    /\ last[q] # NoCall
    /\ request' = [request EXCEPT ![q] = BlankRequest]
    /\ last' = [last EXCEPT ![q] = NoCall]
    /\ UNCHANGED <<hook, class_verifier, args, pc, frame, seen, seen_callback>>

\* hook(request), run to its end by one caller
Call(h, q, time, rand, fails) ==
    /\ pc[q] = "idle"
    /\ fails => hook[h].signature # HmacSha1Signature
    /\ \E o \in {Observe(hook[h], request[q])} :
       \E c \in {Complete(o.self, class_verifier, o.request,
                           o.params_and_data, time, rand, fails)} :
       LET saw == o.raised = None /\ InputVerifier(request[q]) # None
       IN  /\ hook' = [hook EXCEPT ![h] = o.self]
           /\ class_verifier' =
                  IF o.raised = None
                  THEN ClassVerifierAfter(class_verifier, o.params_and_data)
                  ELSE class_verifier
           /\ seen' = [seen EXCEPT ![h] =
                          IF saw THEN InputVerifier(request[q]) ELSE @]
           /\ seen_callback' = [seen_callback EXCEPT ![h] =
                  IF "oauth_callback" \in Keys(o.params_and_data)
                  THEN Get(o.params_and_data, "oauth_callback") ELSE @]
           /\ IF o.raised # None
              THEN /\ request' = [request EXCEPT ![q] = o.request]
                   /\ last' = [last EXCEPT ![q] =
                          [NoCall EXCEPT !.status = o.raised, !.h = h,
                                         !.input = request[q],
                                         !.seen_before = seen[h]]]
              ELSE /\ request' = [request EXCEPT ![q] = c.request]
                   /\ last' = [last EXCEPT ![q] =
                          [status |-> IF c.raised = None THEN "ok" ELSE c.raised,
                           h |-> h, input |-> request[q],
                           params_and_data |-> o.params_and_data,
                           generated |-> c.generated, at_sign |-> c.at_sign,
                           steps |-> c.steps,
                           signed |-> c.signed, seen_before |-> seen[h]]]
    /\ UNCHANGED <<args, pc, frame>>

\* one thread runs lines 86-108 of hook(request)
Enter(h, q) ==
    /\ pc[q] = "idle"
    /\ last[q].status = "none"
    /\ \E o \in {Observe(hook[h], request[q])} :
       LET saw == o.raised = None /\ InputVerifier(request[q]) # None
       IN  /\ hook' = [hook EXCEPT ![h] = o.self]
           /\ class_verifier' =
                  IF o.raised = None
                  THEN ClassVerifierAfter(class_verifier, o.params_and_data)
                  ELSE class_verifier
           /\ seen' = [seen EXCEPT ![h] =
                          IF saw THEN InputVerifier(request[q]) ELSE @]
           /\ seen_callback' = [seen_callback EXCEPT ![h] =
                  IF "oauth_callback" \in Keys(o.params_and_data)
                  THEN Get(o.params_and_data, "oauth_callback") ELSE @]
           /\ request' = [request EXCEPT ![q] = o.request]
           /\ last' = [last EXCEPT ![q] =
                  [NoCall EXCEPT !.status = IF o.raised = None THEN "running"
                                            ELSE o.raised,
                                 !.h = h, !.input = request[q],
                                 !.params_and_data = o.params_and_data,
                                 !.seen_before = seen[h]]]
           /\ pc' = [pc EXCEPT ![q] = IF o.raised = None THEN "merged" ELSE "idle"]
           /\ frame' = [frame EXCEPT ![q] =
                  IF o.raised = None
                  THEN [h |-> h, params_and_data |-> o.params_and_data]
                  ELSE NoFrame]
    /\ UNCHANGED args

\* the thread runs lines 110-145
Leave(q, time, rand, fails) ==
    /\ pc[q] = "merged"
    /\ \E h \in {frame[q].h} :
       \E c \in {Complete(hook[h], class_verifier, request[q],
                           frame[q].params_and_data, time, rand, fails)} :
           /\ fails => hook[h].signature # HmacSha1Signature
           /\ request' = [request EXCEPT ![q] = c.request]
           /\ last' = [last EXCEPT ![q] =
                  [@ EXCEPT !.status = IF c.raised = None THEN "ok" ELSE c.raised,
                            !.generated = c.generated, !.at_sign = c.at_sign,
                            !.steps = c.steps, !.signed = c.signed]]
    /\ pc' = [pc EXCEPT ![q] = "idle"]
    /\ frame' = [frame EXCEPT ![q] = NoFrame]
    /\ UNCHANGED <<hook, class_verifier, args, seen, seen_callback>>

-----------------------------------------------------------------------------
(* One hook, one caller: calls run one after the other *)

InitWith(H, Q, A, R) ==
    /\ args \in [H -> A]
    /\ hook = [h \in {i \in H : New(args[i]).raised = None} |->
                  New(args[h]).self]
    /\ class_verifier = None
    /\ request \in [Q -> R]
    /\ pc = [q \in Q |-> "idle"]
    /\ frame = [q \in Q |-> NoFrame]
    /\ last = [q \in Q |-> NoCall]
    /\ seen = [h \in H |-> None]
    /\ seen_callback = [h \in H |-> None]

Init == InitWith({1}, {1}, CtorArgs, {BlankRequest})

Next ==
    \/ NewRequest(1)
    \/ Discard(1)
    \/ \E tick \in 1..MaxTick, fails \in BOOLEAN :
           Call(1, 1, tick, tick, fails)

Spec == Init /\ [][Next]_vars

-----------------------------------------------------------------------------
(* One hook shared by two threads, each with a request of its own *)

ThreadArgs == {a \in CtorArgs : a.access_token = None
                                /\ a.access_token_secret = None}

ThreadParams ==
    {PDict({}), PDict({<<"oauth_verifier", "X">>}),
     PDict({<<"oauth_verifier", "Y">>})}

ThreadRequests ==
    {r \in FreshRequests : /\ r.params \in ThreadParams
                           /\ r.data = PDict({})
                           /\ r.headers.content_type = None}

InitThreads == InitWith({1}, {1, 2}, ThreadArgs, ThreadRequests)

NextThreads ==
    \/ \E q \in {1, 2} : Enter(1, q)
    \/ \E q \in {1, 2}, tick \in 1..MaxTick, fails \in BOOLEAN :
           Leave(q, tick, tick, fails)

SpecThreads == InitThreads /\ [][NextThreads]_vars

-----------------------------------------------------------------------------
(* Two hooks, each called on either of two requests, one call at a time *)

TwoArgs == {a \in ThreadArgs : a.signature = None}

InitTwo == InitWith({1, 2}, {1, 2}, TwoArgs, ThreadRequests)

\* the clock and the nonce source stand at their first value
NextTwo ==
    \E h \in {1, 2}, q \in {1, 2} : Call(h, q, 1, 1, FALSE)

SpecTwo == InitTwo /\ [][NextTwo]_vars

-----------------------------------------------------------------------------
(* Properties *)

\* a call that got as far as generating the OAuth parameters
Generating(l) == l.status \in {"ok", "SigningError"}

\* the OAuth parameter set of a call with its signature
OAuthSet(l) ==
    Put(l.at_sign.oauth_params.map, "oauth_signature",
        Get(l.signed, "oauth_signature"))

\* urllib.unquote, for reading a header back
unquote(v) == CASE v = "http%3A//cb" -> "http://cb"
                [] v = "s1%3D" -> "s1="
                [] v = "s2%3D" -> "s2="
                [] v = "s3%3D" -> "s3="
                [] v = "s4%3D" -> "s4="
                [] OTHER -> v

ParsedHeader(hdr) == {<<p[1], unquote(p[2])>> : p \in hdr.params}

\* the pairs of a params/data value as the caller wrote them
PairsOf(x) == IF x.shape = "dict" THEN x.map
              ELSE {x.seq[i] : i \in 1..Len(x.seq)}

\* one of params/data is a raw query string and the other a decoded mapping
Mixed(r) == (r.params.shape = "str") # (r.data.shape = "str")

\* a successful call that takes the body placement
BodyMode(q) ==
    /\ last[q].status = "ok"
    /\ ~hook[last[q].h].header_auth
    /\ last[q].input.method = "POST"
    /\ request[q].headers.content_type = form_urlencoded

\* C1: once a call on the hook carried oauth_verifier=XYZ, a later call whose
\* input carries no oauth_verifier generates oauth_verifier=XYZ, XYZ being
\* the value of the most recent call that carried one.
C1_VerifierPersists ==
    \A q \in DOMAIN last :
        (/\ Generating(last[q])
         /\ InputVerifier(last[q].input) = None
         /\ last[q].seen_before # None)
        => <<"oauth_verifier", last[q].seen_before>> \in last[q].generated

C1_Witness ==
    \E q \in DOMAIN last :
        /\ last[q].status = "ok"
        /\ InputVerifier(last[q].input) = None
        /\ last[q].seen_before = "Y"
        /\ <<"oauth_verifier", "Y">> \in last[q].generated

\* C2: with the hook shared by concurrent calls, a call whose input carries
\* oauth_verifier=X generates its OAuth parameters with oauth_verifier=X.
C2_OwnVerifierSigned ==
    \A q \in DOMAIN last :
        (Generating(last[q]) /\ InputVerifier(last[q].input) # None)
        => <<"oauth_verifier", InputVerifier(last[q].input)>>
               \in last[q].generated

\* C3: a call that fails leaves the request as the caller passed it: params,
\* data and headers unchanged, no oauth_params or params_and_data attached.
C3_FailureLeavesRequest ==
    \A q \in DOMAIN last :
        last[q].status \notin {"none", "running", "ok"}
        => request[q] = last[q].input

\* C4: a successful call writes the signed parameters to the Authorization
\* header when header_auth is on; else to the body when the method is POST
\* and the content-type is form-urlencoded; else to the query.
C4_Placement ==
    \A q \in DOMAIN last :
        last[q].status = "ok" =>
            IF hook[last[q].h].header_auth
            THEN /\ request[q].headers.Authorization.scheme = "OAuth"
                 /\ ParsedHeader(request[q].headers.Authorization)
                        = last[q].signed
            ELSE IF /\ last[q].input.method = "POST"
                    /\ request[q].headers.content_type = form_urlencoded
            THEN request[q].data = PDict(last[q].signed)
            ELSE request[q].params = PDict(last[q].signed)

C4_Witness ==
    \E q \in DOMAIN last :
        /\ last[q].status = "ok"
        /\ hook[last[q].h].header_auth
        /\ last[q].input.method = "POST"
        /\ last[q].input.headers.content_type = form_urlencoded
        /\ last[q].input.headers.Authorization = NoHeader
        /\ request[q].headers.Authorization.scheme = "OAuth"
        /\ request[q].data = last[q].input.data

\* C5: in body mode (a successful call on a POST with form content-type and
\* header_auth off) every original body parameter and every OAuth parameter
\* (oauth_signature included) is in the final body, each exactly once.
C5_BodyHasAllOnce ==
    \A q \in DOMAIN last :
        BodyMode(q) =>
            /\ PairsOf(last[q].input.data) \subseteq request[q].data.map
            /\ OAuthSet(last[q]) \subseteq request[q].data.map
            /\ \A p1, p2 \in request[q].data.map : p1[1] = p2[1] => p1 = p2

\* C6: in header mode the Authorization header, parsed back, is exactly the
\* OAuth parameter set of the call: each OAuth parameter once, and none of
\* the caller's form/query parameters.
C6_HeaderRoundTrip ==
    \A q \in DOMAIN last :
        (last[q].status = "ok" /\ hook[last[q].h].header_auth)
        => ParsedHeader(request[q].headers.Authorization) = OAuthSet(last[q])

\* C7: the generated OAuth parameters hold oauth_consumer_key (the consumer
\* key), oauth_nonce, oauth_timestamp, oauth_version "1.0" and
\* oauth_signature_method (the strategy's name); oauth_token iff the hook
\* holds a token; oauth_verifier iff a verifier has been recorded.
C7_ParameterSet ==
    \A q \in DOMAIN last :
        Generating(last[q]) =>
            LET g == last[q].generated
                h == last[q].h
            IN  /\ <<"oauth_consumer_key", args[h].consumer_key>> \in g
                /\ "oauth_nonce" \in Keys(g)
                /\ "oauth_timestamp" \in Keys(g)
                /\ <<"oauth_version", "1.0">> \in g
                /\ <<"oauth_signature_method",
                     IF args[h].signature = None THEN "HMAC-SHA1"
                     ELSE args[h].signature>> \in g
                /\ "oauth_token" \in Keys(g) <=> hook[h].token # NoToken
                /\ "oauth_verifier" \in Keys(g) <=> seen[h] # None
                /\ \A p1, p2 \in g : p1[1] = p2[1] => p1 = p2

C7_Witness ==
    \E q \in DOMAIN last :
        /\ Generating(last[q])
        /\ <<"oauth_token", "tk">> \in last[q].generated
        /\ <<"oauth_verifier", "X">> \in last[q].generated
        /\ <<"oauth_signature_method", "PLAINTEXT">> \in last[q].generated

\* C8: constructing the hook with exactly one of access_token and
\* access_token_secret is an error: no hook instance comes of it.
C8_HalfTokenRejected ==
    \A h \in DOMAIN args : HalfToken(args[h]) => h \notin DOMAIN hook

\* C9: with exactly one of request.params / request.data a raw query string
\* and the other a decoded mapping, the call fails when it merges them,
\* before anything is signed.
C9_MixedShapeFails ==
    \A q \in DOMAIN last :
        (last[q].status \notin {"none", "running"} /\ Mixed(last[q].input))
        => last[q].status
               \in {"InvalidRequestShapeError", "ValueError", "TypeError"}

\* C10: an unset content-type is defaulted to form-urlencoded before the
\* placement is decided, so a POST without content-type and without
\* header_auth is placed in the body; a content-type that was set is kept.
C10_ContentTypeDefault ==
    \A q \in DOMAIN last :
        last[q].status = "ok" =>
            IF last[q].input.headers.content_type = None
            THEN /\ request[q].headers.content_type = form_urlencoded
                 /\ (last[q].input.method = "POST"
                     /\ ~hook[last[q].h].header_auth)
                    => request[q].data = PDict(last[q].signed)
            ELSE request[q].headers.content_type
                     = last[q].input.headers.content_type

C10_Witness ==
    \E q \in DOMAIN last :
        /\ last[q].status = "ok"
        /\ last[q].input.headers.content_type = None
        /\ last[q].input.method = "POST"
        /\ ~hook[last[q].h].header_auth
        /\ request[q].headers.content_type = form_urlencoded
        /\ request[q].data = PDict(last[q].signed)
        /\ "oauth_signature" \in Keys(request[q].data.map)

\* the parameters a request hands to the signature strategy: the attached
\* request.params_and_data and the caller's query and body parameters
HandedToSign(r) ==
    Keys(r.params_and_data.map) \cup Keys(CallerMap(r.params))
        \cup Keys(CallerMap(r.data))

\* C11: in every call, also on a request an earlier call signed, no
\* oauth_signature is among the parameters handed to the signature strategy
\* when sign is invoked.
C11_NoSignatureHandedToSign ==
    \A q \in DOMAIN last :
        Generating(last[q])
        => "oauth_signature" \notin HandedToSign(last[q].at_sign)

\* C12: within one call, an oauth_verifier among the merged query/body
\* parameters is recorded before the OAuth parameters are generated: the
\* parameters that call generates, attaches and signs carry that value.
C12_VerifierRecordedBeforeGenerating ==
    \A q \in DOMAIN last :
        (Generating(last[q])
            /\ "oauth_verifier" \in Keys(last[q].params_and_data))
        => LET v == Get(last[q].params_and_data, "oauth_verifier")
           IN  /\ <<"oauth_verifier", v>> \in last[q].generated
               /\ <<"oauth_verifier", v>>
                      \in last[q].at_sign.params_and_data.map
               /\ (last[q].status = "ok"
                      => <<"oauth_verifier", v>> \in last[q].signed)

\* a call carrying Y on a hook that remembered X signs with Y
C12_Witness ==
    \E q \in DOMAIN last :
        /\ last[q].status = "ok"
        /\ last[q].seen_before = "X"
        /\ <<"oauth_verifier", "Y">> \in last[q].params_and_data
        /\ <<"oauth_verifier", "Y">> \in last[q].generated
        /\ <<"oauth_verifier", "Y">> \in last[q].signed

\* C13: a step changes nothing of the authorizer but the remembered
\* verifier, and changes the verifier only in a call whose input contains
\* oauth_verifier, to that value: consumer, token, header_auth and the
\* signature strategy stay as constructed, so a hook without a token never
\* gets one.
C13_CallFrame ==
    [][\A h \in DOMAIN hook :
          /\ hook'[h].consumer = hook[h].consumer
          /\ hook'[h].token = hook[h].token
          /\ hook'[h].header_auth = hook[h].header_auth
          /\ hook'[h].signature = hook[h].signature
          /\ hook'[h].verifier # hook[h].verifier
             => \E q \in DOMAIN last :
                   /\ last'[q].h = h
                   /\ last'[q].input = request[q]
                   /\ InputVerifier(request[q]) # None
                   /\ hook'[h].verifier = InputVerifier(request[q])]_vars

\* a hook built without a token has signed a request and taken its verifier,
\* and is as constructed otherwise
C13_Witness ==
    \E q \in DOMAIN last :
        /\ last[q].status = "ok"
        /\ InputVerifier(last[q].input) = "X"
        /\ hook[last[q].h].verifier = "X"
        /\ hook[last[q].h].token = NoToken
        /\ [hook[last[q].h] EXCEPT !.verifier = Unset]
               = New(args[last[q].h]).self

\* the positions of a step in the log of a call
StepsAt(l, name) == {i \in DOMAIN l.steps : l.steps[i] = name}

C15_OtherLocationsKept ==
    \A q \in DOMAIN last :
        last[q].status = "ok" =>
            LET n == Normalised(last[q].input)
                r == request[q]
            IN  /\ r.method = n.method
                /\ r.url = n.url
                /\ r.headers.content_type = ContentType(last[q].input)
                /\ IF hook[last[q].h].header_auth
                   THEN r.params = n.params /\ r.data = n.data
                   ELSE IF BodyMode(q)
                   THEN /\ r.params = n.params
                        /\ r.headers.Authorization
                               = last[q].input.headers.Authorization
                   ELSE /\ r.data = n.data
                        /\ r.headers.Authorization
                               = last[q].input.headers.Authorization

\* body mode with a query of the caller: the body is rewritten, the query
\* and the absent Authorization header are as before
C15_Witness ==
    \E q \in DOMAIN last :
        /\ BodyMode(q)
        /\ last[q].input.params = PDict({<<"a", "1">>})
        /\ request[q].params = last[q].input.params
        /\ request[q].data # last[q].input.data
        /\ request[q].headers.Authorization = NoHeader

\* C16: the remembered verifier belongs to one instance: a hook generates
\* oauth_verifier only after a call on that hook had oauth_verifier in its
\* input, whatever the other hook was called with before or after, and the
\* class attribute verifier stays None.
C16_VerifierPerInstance ==
    /\ class_verifier = None
    /\ \A q \in DOMAIN last :
           (Generating(last[q])
               /\ "oauth_verifier" \in Keys(last[q].generated))
           => seen[last[q].h] # None
    /\ \A h \in DOMAIN hook : seen[h] = None => hook[h].verifier = Unset

\* one hook remembers X; the other, called after that on a request without
\* oauth_verifier, generated none
C16_Witness ==
    \E q \in DOMAIN last, h \in DOMAIN hook :
        /\ h # last[q].h
        /\ hook[h].verifier = "X"
        /\ last[q].status = "ok"
        /\ last[q].h \in DOMAIN hook
        /\ hook[last[q].h].verifier = Unset
        /\ "oauth_verifier" \notin Keys(last[q].generated)
        /\ \E p \in DOMAIN last :
               /\ p # q
               /\ last[p].h = h
               /\ last[p].status = "ok"
               /\ InputVerifier(last[p].input) = "X"

\* C17: an oauth_callback among the merged query/body parameters is copied
\* into the OAuth parameter set of that call before signing, is signed and,
\* with header_auth, emitted in the Authorization header; the generated
\* parameters never hold one, so a call without oauth_callback in its input
\* has none in its OAuth parameter set, whatever earlier calls carried.
C17_CallbackCopiedNotRemembered ==
    \A q \in DOMAIN last :
        Generating(last[q])
        => LET l == last[q]
               cb == IF "oauth_callback" \in Keys(l.params_and_data)
                     THEN Get(l.params_and_data, "oauth_callback") ELSE None
           IN  /\ "oauth_callback" \notin Keys(l.generated)
               /\ cb # None
                  => /\ <<"oauth_callback", cb>> \in l.at_sign.oauth_params.map
                     /\ <<"oauth_callback", cb>>
                            \in l.at_sign.params_and_data.map
                     /\ l.status = "ok"
                        => /\ <<"oauth_callback", cb>> \in l.signed
                           /\ hook[l.h].header_auth
                              => <<"oauth_callback", cb>> \in
                                     ParsedHeader(
                                         request[q].headers.Authorization)
               /\ InputValue(l.input, "oauth_callback") = None
                  => /\ cb = None
                     /\ "oauth_callback"
                            \notin Keys(l.at_sign.oauth_params.map)
                     /\ "oauth_callback"
                            \notin Keys(l.at_sign.params_and_data.map)

\* the hook signed a request with oauth_callback earlier; its latest call,
\* on a request without one, has no oauth_callback in what it signed
C17_Witness ==
    \E q \in DOMAIN last :
        /\ last[q].status = "ok"
        /\ seen_callback[last[q].h] = "http://cb"
        /\ InputValue(last[q].input, "oauth_callback") = None
        /\ "oauth_callback" \notin Keys(last[q].signed)

\* with header_auth, the oauth_callback of the input is in the header
C17_WitnessHeader ==
    \E q \in DOMAIN last :
        /\ last[q].status = "ok"
        /\ hook[last[q].h].header_auth
        /\ <<"oauth_callback", "http://cb">> \in last[q].params_and_data
        /\ <<"oauth_callback", "http://cb">>
               \in ParsedHeader(request[q].headers.Authorization)

====
